---- MODULE Spec2Model ----
(***************************************************************************)
(* A model of the literacy-assessment grading and training code:           *)
(*   - litreading.base / litreading.grade : load_model_from_file, Grader   *)
(*   - literacy_score.train               : ModelTrainer                   *)
(*   - literacy_score.grade               : DataGrader                     *)
(* Each of the three objects is a state machine of its own; a call is one  *)
(* action, and the record of the last call (its arguments, what it         *)
(* returned or raised, what it logged or printed) is part of the state.    *)
(***************************************************************************)
EXTENDS Integers, Sequences, FiniteSets, TLC

VARIABLES grader, lrCall, trainer, trCall, dg, dgCall

vars == <<grader, lrCall, trainer, trCall, dg, dgCall>>

(***************************************************************************)
(* Bounds of the model.                                                    *)
(***************************************************************************)
\* longest batch handed to Grader.grade
MaxBatch == 2

(***************************************************************************)
(* Generic helpers.                                                        *)
(***************************************************************************)
Max(a, b) == IF a >= b THEN a ELSE b

Range(s) == {s[i] : i \in 1..Len(s)}

\* all sequences over S of length 0..n
SeqsUpTo(S, n) == UNION {[1..k -> S] : k \in 0..n}

(***************************************************************************)
(* litreading: model artifacts on disk.                                    *)
(* A path argument is described by what the loader can observe of it:      *)
(* whether an argument was given at all, whether it names a regular file,  *)
(* its suffix, whether the bytes unpickle, and the object they hold.       *)
(***************************************************************************)
NoObject == [class |-> "NoneType", coef |-> 0]

PickledObjects ==
    { [class |-> "Pipeline", coef |-> 1],
      [class |-> "Pipeline", coef |-> 2],
      [class |-> "StandardScaler", coef |-> 0],
      [class |-> "dict", coef |-> 0] }

Suffixes == {".pkl", ".joblib"}

ModelFilepaths ==
    [given : BOOLEAN, is_file : BOOLEAN, suffix : Suffixes,
     unpickles : BOOLEAN, obj : PickledObjects]

\* outcome of a call: the exception it raised ("none" when it returned)
\* and the value it returned
Return(v) == [raised |-> "none", value |-> v]
Raise(e) == [raised |-> e, value |-> NoObject]

\* litreading.utils.files.open_file: deserializes the file's object
open_file(fp) ==
    IF fp.unpickles THEN Return(fp.obj) ELSE Raise("UnpicklingError")

load_model_from_file_unchecked(fp) ==
    IF ~fp.given THEN Raise("TypeError")
    ELSE IF ~fp.is_file THEN Raise("FileNotFoundError")
    ELSE IF fp.suffix # ".pkl" THEN Raise("ValueError")
    ELSE open_file(fp)

\* base.py, load_model_from_file
load_model_from_file(fp) ==
    IF ~fp.given THEN Raise("TypeError")                    \* Path(None)
    ELSE IF ~fp.is_file THEN Raise("FileNotFoundError")
    ELSE IF fp.suffix # ".pkl" THEN Raise("ValueError")
    ELSE LET r == open_file(fp) IN
         IF r.raised # "none" THEN r
         ELSE IF r.value.class # "Pipeline" THEN Raise("ValueError")
         ELSE Return(r.value)

(***************************************************************************)
(* litreading: batches and the preprocessor.                               *)
(* A raw row holds the prompt and the ASR transcript as token sequences.   *)
(***************************************************************************)
SampleRows ==
    { [prompt |-> <<"a", "b">>, asr |-> <<"a", "b">>],
      [prompt |-> <<"a", "b">>, asr |-> <<"b">>],
      [prompt |-> <<"a">>,      asr |-> <<"b", "b">>],
      [prompt |-> <<"b", "a">>, asr |-> << >>] }

Batches == SeqsUpTo(SampleRows, MaxBatch)

RECURSIVE LCS(_, _)
\* length of the longest common subsequence of two token sequences
LCS(p, a) ==
    IF Len(p) = 0 \/ Len(a) = 0 THEN 0
    ELSE IF Head(p) = Head(a) THEN 1 + LCS(Tail(p), Tail(a))
    ELSE Max(LCS(Tail(p), a), LCS(p, Tail(a)))

\* LCSPreprocessor.preprocess_data: one processed row per raw row, in order;
\* baseline_col is the column BASELINE_MODEL_PREDICTION_COL names
preprocess_data(X) ==
    [i \in 1..Len(X) |->
        [baseline_col |-> LCS(X[i].prompt, X[i].asr),
         n_prompt |-> Len(X[i].prompt),
         n_asr |-> Len(X[i].asr)]]

\* Pipeline.predict: the regressor collaborator, one value per row
PipelinePredict(model, Xp) ==
    [i \in 1..Len(Xp) |-> model.coef * Xp[i].baseline_col + Xp[i].n_asr]

\* outcome of _predict: the values and whether the regressor was invoked
predict_always_model(g, X) ==
    LET Xp == preprocess_data(X) IN
    [y_pred |-> PipelinePredict(g.model, Xp), invoked |-> TRUE]

\* base.py, BaseModel._predict
predict(g, X) ==
    LET Xp == preprocess_data(X) IN
    IF g.baseline_mode
    THEN [y_pred |-> [i \in 1..Len(Xp) |-> Xp[i].baseline_col], invoked |-> FALSE]
    ELSE [y_pred |-> PipelinePredict(g.model, Xp), invoked |-> TRUE]

(***************************************************************************)
(* litreading: the Grader object.                                          *)
(***************************************************************************)
NoGrader == [exists |-> FALSE, baseline_mode |-> FALSE, model |-> NoObject]

NoFilepath ==
    [given |-> FALSE, is_file |-> FALSE, suffix |-> ".pkl",
     unpickles |-> FALSE, obj |-> [class |-> "dict", coef |-> 0]]

LrIdle ==
    [op |-> "none", fp |-> NoFilepath, baseline_arg |-> "False",
     raised |-> "none", value |-> NoObject, loaded |-> FALSE,
     X |-> << >>, y_pred |-> << >>, invoked |-> FALSE]

\* baseline_mode arguments: the two booleans and a non-boolean
BaselineArgs == {"True", "False", "yes"}

\* base.py, BaseModel.__init__ followed by grade.py, Grader.__init__
GraderInit(fp, b) ==
    IF b \notin {"True", "False"}
    THEN /\ lrCall' = [LrIdle EXCEPT !.op = "Grader", !.fp = fp,
                           !.baseline_arg = b, !.raised = "TypeError"]
         /\ UNCHANGED grader
    ELSE IF b = "True"
    THEN /\ grader' = [exists |-> TRUE, baseline_mode |-> TRUE, model |-> NoObject]
         /\ lrCall' = [LrIdle EXCEPT !.op = "Grader", !.fp = fp, !.baseline_arg = b]
    ELSE LET r == load_model_from_file(fp) IN
         /\ lrCall' = [LrIdle EXCEPT !.op = "Grader", !.fp = fp,
                           !.baseline_arg = b, !.raised = r.raised,
                           !.value = r.value, !.loaded = TRUE]
         /\ IF r.raised = "none"
            THEN grader' = [exists |-> TRUE, baseline_mode |-> FALSE,
                            model |-> r.value]
            ELSE UNCHANGED grader

\* a direct call of base.py, load_model_from_file
LoadModelFromFile(fp) ==
    LET r == load_model_from_file(fp) IN
    /\ lrCall' = [LrIdle EXCEPT !.op = "load_model_from_file", !.fp = fp,
                      !.raised = r.raised, !.value = r.value, !.loaded = TRUE]
    /\ UNCHANGED grader

\* grade.py, Grader.grade
Grade(X) ==
    /\ grader.exists
    /\ LET r == predict(grader, X) IN
       lrCall' = [LrIdle EXCEPT !.op = "grade", !.X = X,
                      !.y_pred = r.y_pred, !.invoked = r.invoked]
    /\ UNCHANGED grader

InitGrader ==
    /\ grader = NoGrader
    /\ lrCall = LrIdle

NextGrader ==
    \/ \E fp \in ModelFilepaths, b \in BaselineArgs :
          GraderInit(fp, b) /\ UNCHANGED <<trainer, trCall, dg, dgCall>>
    \/ \E fp \in ModelFilepaths :
          LoadModelFromFile(fp) /\ UNCHANGED <<trainer, trCall, dg, dgCall>>
    \/ \E X \in Batches :
          Grade(X) /\ UNCHANGED <<trainer, trCall, dg, dgCall>>

(***************************************************************************)
(* Exact rational arithmetic: a value is [n, d] with d > 0, in lowest      *)
(* terms.  The parameters and durations the model draws are dyadic, so     *)
(* every value is one that binary floating point holds exactly.            *)
(***************************************************************************)
Abs(a) == IF a < 0 THEN -a ELSE a

RECURSIVE GCD(_, _)
GCD(a, b) == IF b = 0 THEN a ELSE GCD(b, a % b)

RNorm(n, d) ==
    LET g == GCD(Abs(n), Abs(d))
        s == IF d < 0 THEN -1 ELSE 1
    IN [n |-> (s * n) \div g, d |-> (s * d) \div g]

RInt(k) == [n |-> k, d |-> 1]

RAdd(a, b) == RNorm(a.n * b.d + b.n * a.d, a.d * b.d)

RSub(a, b) == RNorm(a.n * b.d - b.n * a.d, a.d * b.d)

RMul(a, b) == RNorm(a.n * b.n, a.d * b.d)

\* b is not zero
RDiv(a, b) == RNorm(a.n * b.d, a.d * b.n)

RECURSIVE SumSeq(_)
\* sum of a sequence of integers
SumSeq(s) == IF Len(s) = 0 THEN 0 ELSE Head(s) + SumSeq(Tail(s))

(***************************************************************************)
(* literacy_score.train: ModelTrainer.                                     *)
(***************************************************************************)
\* most rows of a training table
MaxRows == 3

\* the training table: row i of the csv file
TrainRow(i) ==
    [idx |-> 10 * i, x |-> (i * i) % 5, human_wc |-> 10 * i,
     est_wc |-> IF i % 3 = 0 THEN 20 * i ELSE 10 * i + 1]

TrainTable(n) == [i \in 1..n |-> TrainRow(i)]

ModelTypeArgs == {"RF", "XGB", "KNN", "Baseline", "SVM"}

\* a regressor object: its class and whether it has been fitted (the values
\* of its hyperparameters are not modelled)
NoModel == [class |-> "NoneType", fitted |-> FALSE]

\* the regressor class a model_type name selects; "none" for an unknown name
RegressorClass(model_type) ==
    CASE model_type = "RF" -> "RandomForestRegressor"
      [] model_type = "XGB" -> "XGBRegressor"
      [] model_type = "KNN" -> "KNeighborsRegressor"
      [] model_type = "Baseline" -> "BaselineModel"
      [] OTHER -> "none"

NoScaler == [mean |-> RInt(0), var |-> RInt(0), fit_idx |-> {}]

\* StandardScaler().fit(rows): mean_ and var_ of the column over the rows
\* it is given; fit_idx records the rows that contributed
FitScaler(rows) ==
    LET n == Len(rows)
        sum == SumSeq([i \in 1..n |-> rows[i].x])
        sumsq == SumSeq([i \in 1..n |-> rows[i].x * rows[i].x])
        mean == RNorm(sum, n)
    IN [mean |-> mean,
        var |-> RSub(RNorm(sumsq, n), RMul(mean, mean)),
        fit_idx |-> {rows[i].idx : i \in 1..n}]

\* StandardScaler.transform of one value: (x - mean_) / sqrt(var_), kept as
\* the deviation and the variance it is scaled by (scale_ is 1 when var_ is 0)
ZScore(scaler, x) ==
    [dev |-> RSub(RInt(x), scaler.mean),
     var |-> IF scaler.var.n = 0 THEN RInt(1) ELSE scaler.var]

ScalerTransform(scaler, rows) ==
    [i \in 1..Len(rows) |-> ZScore(scaler, rows[i].x)]

NoTrainer ==
    [exists |-> FALSE, attrs |-> {}, model |-> NoModel, model_type |-> "none",
     data |-> << >>, features |-> << >>, datapoints |-> 0,
     X_train |-> << >>, X_test |-> << >>, Y_train |-> << >>, Y_test |-> << >>,
     test_idx |-> << >>, scaler |-> NoScaler, seed |-> 0]

NoSplit == [X_train |-> << >>, X_test |-> << >>, Y_train |-> << >>,
            Y_test |-> << >>, train_idx |-> << >>, test_idx |-> << >>]

TrIdle ==
    [op |-> "none", model_type |-> "none", raised |-> "none", logged |-> "none",
     split |-> NoSplit, inplace |-> TRUE,
     n_combi |-> -1, answer |-> "", searched |-> FALSE]

TrCall(op) == [TrIdle EXCEPT !.op = op]

\* train.py, set_new_model applied to trainer object t: the object after the
\* call and what the call logged
set_new_model(t, model_type) ==
    IF RegressorClass(model_type) = "none"
    THEN [t |-> t, logged |-> "not_implemented", raised |-> "none"]
    ELSE [t |-> [t EXCEPT !.attrs = @ \cup {"model", "model_type"},
                          !.model = [class |-> RegressorClass(model_type),
                                     fitted |-> FALSE],
                          !.model_type = model_type],
          logged |-> "none", raised |-> "none"]

\* train.py, ModelTrainer.__init__ on a table of n rows, with SEED as the
\* configuration sets it
TrainerInit(model_type, n, seed) ==
    LET r == set_new_model([NoTrainer EXCEPT !.seed = seed], model_type) IN
    /\ ~trainer.exists
    /\ trCall' = [TrCall("ModelTrainer") EXCEPT !.model_type = model_type,
                      !.logged = r.logged, !.raised = r.raised]
    /\ IF r.raised = "none"
       THEN trainer' = [r.t EXCEPT !.exists = TRUE, !.attrs = @ \cup {"data"},
                                   !.data = TrainTable(n)]
       ELSE UNCHANGED trainer

\* train.py, ModelTrainer.set_new_model
SetNewModel(model_type) ==
    /\ trainer.exists
    /\ LET r == set_new_model(trainer, model_type) IN
       /\ trainer' = r.t
       /\ trCall' = [TrCall("set_new_model") EXCEPT !.model_type = model_type,
                         !.logged = r.logged, !.raised = r.raised]

\* train.py, ModelTrainer.compute_features
ComputeFeatures ==
    /\ trainer.exists
    /\ trainer' = [trainer EXCEPT !.attrs = @ \cup {"features"},
                                  !.features = trainer.data]
    /\ trCall' = TrCall("compute_features")

\* outlier tolerances, in percent
Tolerances == {10}

\* Dataset.determine_outliers_mask: true for the rows whose provisional
\* estimate is within tol percent of the human count
determine_outliers_mask(row, tol) ==
    100 * Abs(row.est_wc - row.human_wc) <= tol * row.human_wc

RECURSIVE MaskRows(_, _)
\* features[mask]: the rows whose mask entry is true, in order
MaskRows(rows, tol) ==
    IF Len(rows) = 0 THEN << >>
    ELSE (IF determine_outliers_mask(Head(rows), tol) THEN <<Head(rows)>> ELSE << >>)
         \o MaskRows(Tail(rows), tol)

\* values of literacy_score.config.SEED
Seeds == {0, 1, 2}

\* the shuffle of n rows that the generator seeded with seed produces: the
\* model takes the rotation by seed, so that with the seeds together every
\* row can fall in either partition
Shuffle(seed, n) == [k \in 1..n |-> ((k + seed - 1) % n) + 1]

CeilDiv(a, b) == (a + b - 1) \div b

\* sklearn train_test_split with test_size a fraction (pct percent) and the
\* shuffle perm the seed produces: the first n_test shuffled rows are the
\* test partition, the others the training partition
train_test_split(rows, pct, perm) ==
    LET n == Len(rows)
        n_test == CeilDiv(pct * n, 100)
        n_train == n - n_test
    IN [train |-> [k \in 1..n_train |-> rows[perm[n_test + k]]],
        test |-> [k \in 1..n_test |-> rows[perm[k]]]]

\* train.py lines 115-119 with the scaler fitted on every row
scale_partitions_leaky(parts) ==
    LET scaler == FitScaler(parts.train \o parts.test) IN
    [scaler |-> scaler,
     test_idx |-> [k \in 1..Len(parts.test) |-> parts.test[k].idx],
     X_train |-> ScalerTransform(scaler, parts.train),
     X_test |-> ScalerTransform(scaler, parts.test)]

\* train.py lines 115-119: test_idx, the new scaler fitted on X_train_raw,
\* and both partitions transformed
scale_partitions(parts) ==
    LET scaler == FitScaler(parts.train) IN
    [scaler |-> scaler,
     test_idx |-> [k \in 1..Len(parts.test) |-> parts.test[k].idx],
     X_train |-> ScalerTransform(scaler, parts.train),
     X_test |-> ScalerTransform(scaler, parts.test)]

\* train.py, ModelTrainer.prepare_train_test_set
PrepareTrainTestSet(remove_outliers, outliers_tol, pct, inplace) ==
    /\ trainer.exists
    /\ IF "features" \notin trainer.attrs
       THEN /\ trCall' = [TrCall("prepare_train_test_set") EXCEPT
                              !.raised = "AttributeError", !.inplace = inplace]
            /\ UNCHANGED trainer
       ELSE LET feats == IF remove_outliers
                         THEN MaskRows(trainer.features, outliers_tol)
                         ELSE trainer.features
                t1 == [trainer EXCEPT !.features = feats,
                                      !.datapoints = Len(feats),
                                      !.attrs = @ \cup {"datapoints"}]
                n_test == CeilDiv(pct * Len(feats), 100)
            IN IF Len(feats) - n_test <= 0
               THEN \* train_test_split: the training set would be empty
                    /\ trainer' = t1
                    /\ trCall' = [TrCall("prepare_train_test_set") EXCEPT
                                      !.raised = "ValueError", !.inplace = inplace]
               ELSE LET parts == train_test_split(feats, pct,
                                                  Shuffle(trainer.seed, Len(feats)))
                        sc == scale_partitions(parts)
                        Y_train == [k \in 1..Len(parts.train) |-> parts.train[k].human_wc]
                        Y_test == [k \in 1..Len(parts.test) |-> parts.test[k].human_wc]
                        t2 == [t1 EXCEPT !.test_idx = sc.test_idx,
                                         !.scaler = sc.scaler,
                                         !.attrs = @ \cup {"test_idx", "scaler"}]
                    IN /\ trainer' =
                            IF inplace
                            THEN [t2 EXCEPT !.X_train = sc.X_train,
                                            !.X_test = sc.X_test,
                                            !.Y_train = Y_train,
                                            !.Y_test = Y_test,
                                            !.attrs = @ \cup {"X_train", "X_test",
                                                              "Y_train", "Y_test"}]
                            ELSE t2
                       /\ trCall' = [TrCall("prepare_train_test_set") EXCEPT
                             !.inplace = inplace,
                             !.split = [X_train |-> sc.X_train, X_test |-> sc.X_test,
                                        Y_train |-> Y_train, Y_test |-> Y_test,
                                        train_idx |-> [k \in 1..Len(parts.train) |->
                                                          parts.train[k].idx],
                                        test_idx |-> sc.test_idx]]

\* train.py, ModelTrainer.train
Train ==
    /\ trainer.exists
    /\ IF "model" \notin trainer.attrs
       THEN /\ trCall' = [TrCall("train") EXCEPT !.raised = "AttributeError"]
            /\ UNCHANGED trainer
       ELSE IF "X_train" \notin trainer.attrs
            THEN /\ trCall' = [TrCall("train") EXCEPT !.logged = "not_prepared"]
                 /\ UNCHANGED trainer
            ELSE /\ trainer' = [trainer EXCEPT !.model.fitted = TRUE]
                 /\ trCall' = TrCall("train")

\* train.py, ModelTrainer.evaluate_model
EvaluateModel ==
    /\ trainer.exists
    /\ UNCHANGED trainer
    /\ IF "model" \notin trainer.attrs \/ "X_test" \notin trainer.attrs
       THEN trCall' = [TrCall("evaluate_model") EXCEPT !.raised = "AttributeError"]
       ELSE IF ~trainer.model.fitted
       THEN trCall' = [TrCall("evaluate_model") EXCEPT !.raised = "NotFittedError"]
       ELSE trCall' = TrCall("evaluate_model")

\* cv_params dictionaries: parameter names with the list of values to try
CvGrids ==
    { << >>,
      <<[name |-> "n_neighbors", values |-> <<1, 2>>],
        [name |-> "weights", values |-> <<1, 2, 3>>]>> }

\* answers typed at the prompt "Continue with these c-v parameters ? (y/n)"
Answers == {"y", "n", "no", "", "N"}

RECURSIVE ItertoolsProduct(_)
\* itertools.product of the value lists: the list of all combinations
ItertoolsProduct(lists) ==
    IF Len(lists) = 0 THEN << << >> >>
    ELSE LET h == Head(lists)
             rest == ItertoolsProduct(Tail(lists))
         IN IF Len(rest) = 0 THEN << >>
            ELSE [k \in 1..(Len(h) * Len(rest)) |->
                     <<h[((k - 1) \div Len(rest)) + 1]>>
                     \o rest[((k - 1) % Len(rest)) + 1]]

\* train.py, ModelTrainer.grid_search
GridSearch(cv_params, answer) ==
    /\ trainer.exists
    /\ IF "model_type" \notin trainer.attrs
       THEN /\ trCall' = [TrCall("grid_search") EXCEPT !.raised = "AttributeError",
                              !.answer = answer]
            /\ UNCHANGED trainer
       ELSE IF trainer.model_type \notin {"RF", "XGB", "KNN"}
       THEN \* estimator is never bound
            /\ trCall' = [TrCall("grid_search") EXCEPT !.raised = "UnboundLocalError",
                              !.answer = answer]
            /\ UNCHANGED trainer
       ELSE LET params_list == ItertoolsProduct(
                                   [i \in 1..Len(cv_params) |-> cv_params[i].values])
                n_combi == Len(params_list)
                call == [TrCall("grid_search") EXCEPT !.n_combi = n_combi,
                                                      !.answer = answer]
            IN IF answer = "n" \/ answer = "no"
               THEN /\ trCall' = call
                    /\ UNCHANGED trainer
               ELSE IF "X_train" \notin trainer.attrs
               THEN \* fit's AttributeError is caught and logged; reading
                    \* best_estimator_ of the unfitted search then raises
                    /\ trCall' = [call EXCEPT !.logged = "not_prepared",
                                              !.raised = "AttributeError"]
                    /\ UNCHANGED trainer
               ELSE /\ trCall' = [call EXCEPT !.searched = TRUE]
                    /\ trainer' = [trainer EXCEPT !.model =
                           [class |-> RegressorClass(trainer.model_type),
                            fitted |-> TRUE]]

TestSizes == {20, 50}

InitTrainer ==
    /\ trainer = NoTrainer
    /\ trCall = TrIdle

NextTrainer ==
    \/ \E m \in ModelTypeArgs, n \in 0..MaxRows, seed \in Seeds :
          TrainerInit(m, n, seed) /\ UNCHANGED <<grader, lrCall, dg, dgCall>>
    \/ \E m \in ModelTypeArgs :
          SetNewModel(m) /\ UNCHANGED <<grader, lrCall, dg, dgCall>>
    \/ ComputeFeatures /\ UNCHANGED <<grader, lrCall, dg, dgCall>>
    \/ \E ro \in BOOLEAN, tol \in Tolerances, pct \in TestSizes, inplace \in BOOLEAN :
          PrepareTrainTestSet(ro, tol, pct, inplace)
          /\ UNCHANGED <<grader, lrCall, dg, dgCall>>
    \/ Train /\ UNCHANGED <<grader, lrCall, dg, dgCall>>
    \/ EvaluateModel /\ UNCHANGED <<grader, lrCall, dg, dgCall>>
    \/ \E g \in CvGrids, a \in Answers :
          GridSearch(g, a) /\ UNCHANGED <<grader, lrCall, dg, dgCall>>

(***************************************************************************)
(* literacy_score.grade: DataGrader.                                       *)
(***************************************************************************)
\* most rows of a batch handed to DataGrader
MaxGradeRows == 2

\* most times the features of one DataGrader are scaled before they are
\* computed anew
MaxScalings == 2

\* rows of a batch: the scored duration in seconds and the count the
\* feature computation derives from the prompt and the transcript
GradeRows ==
    { [dur |-> 30, words |-> 2], [dur |-> 60, words |-> 2],
      [dur |-> 30, words |-> 0], [dur |-> 0, words |-> 3],
      [dur |-> 0, words |-> 0] }

\* first label of the batch's row index: 0 is the default RangeIndex, the
\* others are batches cut out of a larger table
IndexStarts == {0, 1}

\* the files under MODELS_PATH: a fitted scaler (mean_, scale_) and fitted
\* regressors, each taken as a linear map of the scaled feature
Artifact(file) ==
    CASE file = "standard_scaler.joblib" ->
            [class |-> "StandardScaler", a |-> RInt(1), b |-> RInt(2)]
      [] file = "XGB_0.joblib" ->
            [class |-> "XGBRegressor", a |-> RNorm(5, 2), b |-> RNorm(5, 4)]
      [] file = "xgb_hypertuned.pkl" ->
            [class |-> "XGBRegressor", a |-> RInt(2), b |-> RInt(1)]
      [] file = "rf_hypertuned.pkl" ->
            [class |-> "RandomForestRegressor", a |-> RInt(1), b |-> RNorm(1, 2)]
      [] OTHER -> [class |-> "missing", a |-> RInt(0), b |-> RInt(0)]

ModelFiles == {"", "xgb_hypertuned.pkl", "absent.pkl"}

\* value of literacy_score.config.DEFAULT_MODEL
DEFAULT_MODEL == "XGB"

\* a float: a finite number, an infinity or NaN
Num(r) == [kind |-> "num", v |-> r]

Inf == [kind |-> "inf", v |-> RInt(0)]

NegInf == [kind |-> "-inf", v |-> RInt(0)]

NaN == [kind |-> "nan", v |-> RInt(0)]

\* float division a / b of finite numbers: no exception on a zero divisor
FloatDiv(a, b) ==
    IF b.n # 0 THEN Num(RDiv(a, b))
    ELSE IF a.n > 0 THEN Inf
    ELSE IF a.n < 0 THEN NegInf
    ELSE NaN

Floor(r) == r.n \div r.d

\* numpy's round: to the nearest integer, an exact tie to the even one
RoundHalfEven(r) ==
    LET q == Floor(r)
        rem2 == 2 * (r.n - q * r.d)
    IN IF rem2 < r.d THEN q
       ELSE IF rem2 > r.d THEN q + 1
       ELSE IF q % 2 = 0 THEN q ELSE q + 1

\* to the nearest integer, an exact tie upwards
RoundHalfUp(r) ==
    LET q == Floor(r)
        rem2 == 2 * (r.n - q * r.d)
    IN IF rem2 < r.d THEN q ELSE q + 1

\* Series.round
SeriesRound(f) == IF f.kind = "num" THEN Num(RInt(RoundHalfEven(f.v))) ELSE f

NoArtifact == [class |-> "NoneType", a |-> RInt(0), b |-> RInt(0)]

NoDataGrader ==
    [exists |-> FALSE, data |-> << >>, has_features |-> FALSE,
     features |-> << >>, n_scaled |-> 0, scaler |-> NoArtifact,
     model |-> NoArtifact, model_type |-> "none",
     has_estimations |-> FALSE, wcpm_estimations |-> << >>]

DgIdle ==
    [op |-> "none", raised |-> "none", logged |-> "none", inplace |-> FALSE,
     model_arg |-> "None", wc |-> << >>, returned |-> << >>]

\* grade.py, DataGrader.__load_model
LoadModel(file) ==
    IF Artifact(file).class = "missing"
    THEN [raised |-> "FileNotFoundError", value |-> NoArtifact]
    ELSE [raised |-> "none", value |-> Artifact(file)]

\* grade.py, DataGrader.__init__ on the batch rows whose index starts at start
DataGraderInit(rows, start, model_file) ==
    LET sc == LoadModel("standard_scaler.joblib")
        m == LoadModel(IF model_file = "" THEN "XGB_0.joblib" ELSE model_file)
    IN /\ ~dg.exists
       /\ dgCall' = [DgIdle EXCEPT !.op = "DataGrader", !.raised = m.raised]
       /\ IF m.raised # "none" THEN UNCHANGED dg
          ELSE dg' = [NoDataGrader EXCEPT
                         !.exists = TRUE,
                         !.data = [k \in 1..Len(rows) |->
                                      [idx |-> start + k - 1, dur |-> rows[k].dur,
                                       words |-> rows[k].words]],
                         !.scaler = sc.value,
                         !.model = m.value,
                         !.model_type = DEFAULT_MODEL]

\* grade.py, DataGrader.set_model applied to grader object g
set_model(g, model_type) ==
    IF g.model_type = model_type THEN [g |-> g, logged |-> "none"]
    ELSE IF model_type = "RF"
    THEN [g |-> [g EXCEPT !.model = LoadModel("rf_hypertuned.pkl").value,
                          !.model_type = model_type],
          logged |-> "none"]
    ELSE IF model_type = "XGB"
    THEN [g |-> [g EXCEPT !.model = LoadModel("xgb_hypertuned.pkl").value,
                          !.model_type = model_type],
          logged |-> "none"]
    ELSE [g |-> g, logged |-> "no_such_model"]

SetModel(model_type) ==
    /\ dg.exists
    /\ LET r == set_model(dg, model_type) IN
       /\ dg' = r.g
       /\ dgCall' = [DgIdle EXCEPT !.op = "set_model", !.model_arg = model_type,
                                   !.logged = r.logged]

\* Dataset.compute_features: one feature row per batch row, in the batch's
\* order
compute_features(data) == [k \in 1..Len(data) |-> RInt(data[k].words)]

\* StandardScaler.transform with the loaded scaler: (x - mean_) / scale_
scaler_transform(scaler, features) ==
    [k \in 1..Len(features) |-> RDiv(RSub(features[k], scaler.a), scaler.b)]

\* the regressor's predict, one value per feature row
model_predict(model, features) ==
    [k \in 1..Len(features) |-> RAdd(RMul(model.a, features[k]), model.b)]

Labels(data) == {data[k].idx : k \in 1..Len(data)}

Position(data, label) == CHOOSE k \in 1..Len(data) : data[k].idx = label

\* grade.py line 88: wc.div(data[duration_col] / 60, fill_value = 0).round()
\* wc carries the labels 0..n-1; the division pairs the values by label over
\* the union of the labels, a label missing on one side counting as 0
wc_div_round(wc, data) ==
    [label \in (0..(Len(wc) - 1)) \cup Labels(data) |->
        LET a == IF label \in 0..(Len(wc) - 1) THEN wc[label + 1] ELSE RInt(0)
            b == IF label \in Labels(data)
                 THEN RNorm(data[Position(data, label)].dur, 60)
                 ELSE RInt(0)
        IN SeriesRound(FloatDiv(a, b))]

\* grade.py, DataGrader.estimate_wcpm applied to grader object g: the object
\* after the call, what the call returned or raised, and the predictions
estimate_wcpm(g, inplace, model_arg) ==
    LET g1 == IF model_arg = "None" THEN g ELSE set_model(g, model_arg).g
        logged == IF model_arg = "None" THEN "none"
                  ELSE set_model(g, model_arg).logged
    IN IF ~g1.has_features
       THEN [g |-> g1, raised |-> "AttributeError", logged |-> logged,
             wc |-> << >>, returned |-> << >>]
       ELSE LET scaled == scaler_transform(g1.scaler, g1.features)
                wc == model_predict(g1.model, scaled)
                wcpm == wc_div_round(wc, g1.data)
                g2 == [g1 EXCEPT !.features = scaled, !.n_scaled = @ + 1]
            IN IF ~inplace
               THEN [g |-> g2, raised |-> "none", logged |-> logged,
                     wc |-> wc, returned |-> wcpm]
               ELSE [g |-> [g2 EXCEPT
                               !.has_estimations = TRUE,
                               !.wcpm_estimations =
                                   [k \in 1..Len(g1.data) |-> wcpm[g1.data[k].idx]]],
                     raised |-> "none", logged |-> logged,
                     wc |-> wc, returned |-> << >>]

EstimateWcpm(inplace, model_arg) ==
    /\ dg.exists
    /\ dg.n_scaled < MaxScalings
    /\ LET r == estimate_wcpm(dg, inplace, model_arg) IN
       /\ dg' = r.g
       /\ dgCall' = [DgIdle EXCEPT !.op = "estimate_wcpm", !.inplace = inplace,
                         !.model_arg = model_arg, !.raised = r.raised,
                         !.logged = r.logged, !.wc = r.wc, !.returned = r.returned]

\* grade.py lines 70-73: the preprocessing and feature computation that the
\* grader inherits from Dataset, called on their own
ComputeGradeFeatures ==
    /\ dg.exists
    /\ dg' = [dg EXCEPT !.has_features = TRUE,
                        !.features = compute_features(dg.data),
                        !.n_scaled = 0]
    /\ dgCall' = [DgIdle EXCEPT !.op = "compute_features"]

\* grade.py, DataGrader.grade_wcpm
GradeWcpm ==
    /\ dg.exists
    /\ LET g1 == [dg EXCEPT !.has_features = TRUE,
                            !.features = compute_features(dg.data),
                            !.n_scaled = 0]
           r == estimate_wcpm(g1, TRUE, "None")
       IN /\ dg' = r.g
          /\ dgCall' = [DgIdle EXCEPT !.op = "grade_wcpm", !.inplace = TRUE,
                            !.raised = r.raised, !.wc = r.wc]

GradeBatches == UNION {[1..k -> GradeRows] : k \in 1..MaxGradeRows}

ModelArgs == {"None", "RF", "XGB", "KNN"}

InitDataGrader ==
    /\ dg = NoDataGrader
    /\ dgCall = DgIdle

NextDataGrader ==
    \/ \E rows \in GradeBatches, start \in IndexStarts, f \in ModelFiles :
          DataGraderInit(rows, start, f) /\ UNCHANGED <<grader, lrCall, trainer, trCall>>
    \/ \E m \in ModelArgs \ {"None"} :
          SetModel(m) /\ UNCHANGED <<grader, lrCall, trainer, trCall>>
    \/ ComputeGradeFeatures /\ UNCHANGED <<grader, lrCall, trainer, trCall>>
    \/ \E inplace \in BOOLEAN, m \in ModelArgs :
          EstimateWcpm(inplace, m) /\ UNCHANGED <<grader, lrCall, trainer, trCall>>
    \/ GradeWcpm /\ UNCHANGED <<grader, lrCall, trainer, trCall>>

(***************************************************************************)
(* Specifications: the three objects together, and each one on its own     *)
(* with the other two never built.                                         *)
(***************************************************************************)
Init == InitGrader /\ InitTrainer /\ InitDataGrader

Next == NextGrader \/ NextTrainer \/ NextDataGrader

Spec == Init /\ [][Next]_vars

SpecGrader == Init /\ [][NextGrader]_vars

SpecTrainer == Init /\ [][NextTrainer]_vars

SpecDataGrader == Init /\ [][NextDataGrader]_vars

(***************************************************************************)
(* Claims about load_model_from_file and Grader (SpecGrader).              *)
(***************************************************************************)
\* what the loader is to accept: an existing .pkl file holding a Pipeline
LoadAccepts(fp) ==
    /\ fp.given /\ fp.is_file /\ fp.suffix = ".pkl"
    /\ fp.unpickles /\ fp.obj.class = "Pipeline"

\* C1: load_model_from_file returns a model only for an existing .pkl file
\* that deserializes to a Pipeline, and then returns that object; in every
\* other case it raises (FileNotFoundError for a missing file, whatever the
\* suffix) and hands back no object; a Grader that is not in baseline mode
\* always holds a Pipeline.
C1_LoadReturnsOnlyPipeline ==
    /\ lrCall.loaded =>
          /\ (lrCall.raised = "none") <=> LoadAccepts(lrCall.fp)
          /\ (lrCall.raised = "none") => lrCall.value = lrCall.fp.obj
          /\ (lrCall.raised # "none") => lrCall.value = NoObject
          /\ (lrCall.fp.given /\ ~lrCall.fp.is_file)
                => lrCall.raised = "FileNotFoundError"
    /\ (grader.exists /\ ~grader.baseline_mode) => grader.model.class = "Pipeline"
    /\ (lrCall.op = "Grader" /\ lrCall.loaded /\ lrCall.raised = "none")
          => grader.exists /\ grader.model = lrCall.fp.obj

\* C1 witness: a Grader was built from a file and holds the file's Pipeline
C1_Witness ==
    /\ lrCall.op = "Grader" /\ lrCall.loaded /\ lrCall.raised = "none"
    /\ grader.exists /\ ~grader.baseline_mode
    /\ grader.model = [class |-> "Pipeline", coef |-> 2]

\* C9: a Grader built with baseline_mode=True loads no artifact; its grade
\* never invokes a regressor and returns the baseline column of the
\* preprocessed batch, one value per preprocessed row in order; in either
\* mode the output has one value per preprocessed row.
C9_BaselineBypassesRegressor ==
    /\ (grader.exists /\ grader.baseline_mode) => grader.model = NoObject
    /\ (lrCall.op = "Grader" /\ lrCall.baseline_arg = "True")
          => ~lrCall.loaded /\ lrCall.raised = "none" /\ grader.baseline_mode
    /\ lrCall.op = "grade" =>
          LET Xp == preprocess_data(lrCall.X) IN
          /\ Len(lrCall.y_pred) = Len(Xp)
          /\ grader.baseline_mode =>
                /\ ~lrCall.invoked
                /\ \A i \in 1..Len(Xp) : lrCall.y_pred[i] = Xp[i].baseline_col

\* C9 witness: a baseline grader graded a batch of two rows whose baseline
\* values differ
C9_Witness ==
    /\ lrCall.op = "grade" /\ grader.exists /\ grader.baseline_mode
    /\ Len(lrCall.X) = 2 /\ Len(lrCall.y_pred) = 2
    /\ lrCall.y_pred[1] # lrCall.y_pred[2]

(***************************************************************************)
(* Claims about ModelTrainer (SpecTrainer).                                *)
(***************************************************************************)
\* C2: selecting a regressor by a name outside {RF, XGB, KNN, Baseline},
\* in the constructor or through set_new_model, raises an error to the
\* caller.
C2_UnknownNameIsError ==
    (trCall.op \in {"ModelTrainer", "set_new_model"}
       /\ trCall.model_type \notin {"RF", "XGB", "KNN", "Baseline"})
    => trCall.raised # "none"

\* C3: train, evaluate_model or a confirmed grid_search called on a trainer
\* that has a regressor but no stored train/test partitions returns with the
\* not-prepared error logged, raises nothing and fits no model.
C3_NotPreparedIsReported ==
    (/\ trCall.op \in {"train", "evaluate_model", "grid_search"}
     /\ "model" \in trainer.attrs
     /\ "X_train" \notin trainer.attrs
     /\ trCall.op = "grid_search" =>
           /\ trainer.model_type \in {"RF", "XGB", "KNN"}
           /\ trCall.answer \notin {"n", "no"})
    => /\ trCall.raised = "none"
       /\ trCall.logged = "not_prepared"
       /\ ~trainer.model.fitted

\* the rows of table rows with the index labels idxs, in that order
RowsAt(rows, idxs) ==
    [k \in 1..Len(idxs) |->
        rows[CHOOSE i \in 1..Len(rows) : rows[i].idx = idxs[k]]]

\* C7: after every prepare_train_test_set that returns, the scaler the
\* trainer holds is fitted on the rows of the training partition alone (its
\* statistics are those rows', whatever scaler was held before, and no test
\* row contributed), both partitions are transformed with that scaler, and
\* test_idx is the row index of the test partition; with inplace the
\* partitions stored are the ones returned.
C7_ScalerFitOnTrainOnly ==
    (trCall.op = "prepare_train_test_set" /\ trCall.raised = "none") =>
    LET sp == trCall.split
        train == RowsAt(trainer.features, sp.train_idx)
        test == RowsAt(trainer.features, sp.test_idx)
        n == Len(train)
    IN /\ Range(sp.train_idx) \cap Range(sp.test_idx) = {}
       /\ Range(sp.train_idx) \cup Range(sp.test_idx)
             = {trainer.features[i].idx : i \in 1..Len(trainer.features)}
       /\ Len(sp.train_idx) + Len(sp.test_idx) = Len(trainer.features)
       /\ trainer.scaler.fit_idx = Range(sp.train_idx)
       /\ trainer.scaler.fit_idx \cap Range(trainer.test_idx) = {}
       /\ trainer.scaler.mean = RNorm(SumSeq([k \in 1..n |-> train[k].x]), n)
       /\ trainer.scaler = FitScaler(train)
       /\ sp.X_train = ScalerTransform(trainer.scaler, train)
       /\ sp.X_test = ScalerTransform(trainer.scaler, test)
       /\ trainer.test_idx = sp.test_idx
       /\ {"scaler", "test_idx"} \subseteq trainer.attrs
       /\ trCall.inplace =>
             /\ trainer.X_train = sp.X_train /\ trainer.X_test = sp.X_test
             /\ trainer.Y_train = [k \in 1..n |-> train[k].human_wc]
             /\ trainer.Y_test = [k \in 1..Len(test) |-> test[k].human_wc]

\* C7 witness: a split into two training rows and one test row whose feature
\* differs from the training mean, scaled by a scaler of non-zero variance
C7_Witness ==
    /\ trCall.op = "prepare_train_test_set" /\ trCall.raised = "none"
    /\ Len(trCall.split.train_idx) = 2 /\ Len(trCall.split.test_idx) = 1
    /\ trainer.scaler.var.n # 0
    /\ trCall.split.X_test[1].dev.n # 0

\* answers that confirm the search
Confirmations == {"y", "yes"}

\* C8: grid_search executes the search only after explicit confirmation,
\* having reported the number of combinations (the product of the sizes of
\* the value lists); without confirmation no search is run.
C8_SearchOnlyAfterConfirmation ==
    trCall.op = "grid_search" =>
       /\ trCall.searched => /\ trCall.answer \in Confirmations
                             /\ trCall.n_combi >= 0
       /\ trCall.answer \notin Confirmations => ~trCall.searched

(***************************************************************************)
(* Claims about DataGrader (SpecDataGrader).                               *)
(***************************************************************************)
\* C4: after grade_wcpm of a batch with any row index (and positive
\* durations) the batch has one estimate per row, each computed from that
\* row's predicted word count and that row's scored_duration.
C4_RowIdentity ==
    (/\ dgCall.op = "grade_wcpm" /\ dgCall.raised = "none"
     /\ \A k \in 1..Len(dg.data) : dg.data[k].dur > 0) =>
       /\ dg.has_estimations
       /\ Len(dg.wcpm_estimations) = Len(dg.data)
       /\ \A k \in 1..Len(dg.data) :
             dg.wcpm_estimations[k]
                = SeriesRound(FloatDiv(dgCall.wc[k], RNorm(dg.data[k].dur, 60)))

\* C5: grading a batch with a row whose scored_duration is 0 raises an error.
C5_ZeroDurationRaises ==
    (dgCall.op = "grade_wcpm" /\ \E k \in 1..Len(dg.data) : dg.data[k].dur = 0)
    => dgCall.raised # "none"

\* C6: for every row with positive duration (of a batch with the default
\* row index) the graded WCPM is the predicted word count divided by
\* (scored_duration / 60), rounded to the nearest integer, ties half up.
C6_RoundsHalfUp ==
    (dgCall.op = "grade_wcpm" /\ dgCall.raised = "none" /\ dg.data[1].idx = 0) =>
       \A k \in 1..Len(dg.data) :
          dg.data[k].dur > 0 =>
             dg.wcpm_estimations[k]
                = Num(RInt(RoundHalfUp(RDiv(dgCall.wc[k],
                                            RNorm(dg.data[k].dur, 60)))))

\* the fields of the grader the program can read
GraderState(g) ==
    <<g.data, g.has_features, g.features, g.model, g.model_type, g.scaler,
      g.has_estimations, g.wcpm_estimations>>

\* C10: estimate_wcpm called with inplace=False and no model argument leaves
\* the grader's data, features, model and scaler as they were.
C10_EstimateLeavesStateUnchanged ==
    [][(/\ dgCall'.op = "estimate_wcpm" /\ ~dgCall'.inplace
        /\ dgCall'.model_arg = "None" /\ dgCall'.raised = "none")
       => GraderState(dg') = GraderState(dg)]_vars

====
